---- MODULE Spec2Model ----
(***************************************************************************)
(* A model of pycalphad/core/minimizer.pyx: the two-step block Newton      *)
(* iteration of find_solution.                                             *)
(*                                                                         *)
(* Real quantities (phase amounts, site fractions, residuals, relative     *)
(* changes) are fixed-point numbers <<hi, lo>> that stand for              *)
(* (hi * 10^6 + lo) * 1e-12 with 0 <= lo < 10^6, so that 1e-12, 1e-11,     *)
(* 1e-10, 1e-5, 1e-1 and 1 are all exact.  Energies, chemical potentials   *)
(* and state variables are integers counted in units of 1e-5.              *)
(*                                                                         *)
(* The phase evaluators (PhaseRecord) and the two linear solves are        *)
(* outside this file: what they return is drawn from the small sets named  *)
(* ...Choices / ...Targets below.                                          *)
(***************************************************************************)
EXTENDS Integers, Sequences, FiniteSets, TLC

\* ------------------------------------------------------------ fixed point

Base == 1000 * 1000

Norm(h, l) == <<h + (l \div Base), l % Base>>

Zero == <<0, 0>>
One == <<1000000, 0>>
OneAndHalf == <<1500000, 0>>
Two == <<2000000, 0>>
MinusHalf == <<-500000, 0>>

Add(a, b) == Norm(a[1] + b[1], a[2] + b[2])

Sub(a, b) == Norm(a[1] - b[1], a[2] - b[2])

Neg(a) == Norm(-a[1], -a[2])

Less(a, b) == a[1] < b[1] \/ (a[1] = b[1] /\ a[2] < b[2])

Leq(a, b) == a = b \/ Less(a, b)

Abs(a) == IF Less(a, Zero) THEN Neg(a) ELSE a

Max(a, b) == IF Less(a, b) THEN b ELSE a

Min(a, b) == IF Less(b, a) THEN b ELSE a

\* a times the small integer k
MulInt(a, k) == Norm(a[1] * k, a[2] * k)

\* the largest element of a non-empty finite set of fixed-point numbers
MaxOf(S) == CHOOSE m \in S : \A s \in S : Leq(s, m)

\* the sum of f[i] over i in S
RECURSIVE SumOver(_, _)
SumOver(f, S) ==
    IF S = {} THEN Zero
    ELSE LET i == CHOOSE j \in S : TRUE IN Add(f[i], SumOver(f, S \ {i}))

\* n / d for integers n, d (d # 0), as a fixed-point number, rounded down
Ratio(n, d) ==
    LET q == (n * Base) \div d
        r == (n * Base) % d
    IN <<q, (r * Base) \div d>>

\* a / b where b is One / k for a whole k (the prescribed amounts drawn below)
Quotient(a, b) == MulInt(a, Base \div b[1])

AbsInt(n) == IF n < 0 THEN -n ELSE n

\* ------------------------------------------------------ program constants

\* pycalphad.core.constants.MIN_SITE_FRACTION: 1e-12
MIN_SITE_FRACTION == <<0, 1>>

\* range(100)
MaxIterations == 100

\* mass_residual < 1e-05
MassResidualTol == <<10, 0>>

\* largest_internal_cons_max_residual < 1e-10
InternalConsTol == <<0, 100>>

\* largest_internal_dof_change < 1e-11
InternalDofTol == <<0, 10>>

\* largest_phase_amt_change[0, 0] < 1e-10
PhaseAmtTol == <<0, 100>>

\* largest_statevar_change[0, 0] < 1e-1
StatevarTol == <<100000, 0>>

\* driving_forces[:, 0] > -1e-5, in units of 1e-5
DrivingForceTol == -1

\* ------------------------------------------------------------------ sizes

NumPhases == 2

Phases == 0 .. (NumPhases - 1)

\* a unary system: one component, one state variable, and phases with one
\* internal degree of freedom
Components == {0}

Statevars == {0}

num_statevars == Cardinality(Statevars)

\* --------------------------------------------------- what the outside returns

\* the new site fraction the per-phase solve aims at: delta_y = target - y
YTargets == { [i \in Phases |-> Zero], [i \in Phases |-> Two] }

\* internal_cons_max_residual of one phase
ConsChoices ==
    { [i \in Phases |-> Zero], [i \in Phases |-> IF i = 0 THEN One ELSE Zero] }

\* mass_obj: moles of the component in one formula unit of a phase
MassChoices == {1}

\* obj: Gibbs energy of a phase
EnergyChoices == {0, 1}

\* the least-squares solution: new chemical potentials, phase-amount
\* increments (delta = target - amount) and state-variable increments
ChempotChoices == {1, 2}

NTargets == {MinusHalf, OneAndHalf}

StatevarTargets == {2}

\* ------------------------------------------------------------------ state

VARIABLES
    pc,                                 \* "loop", "exit", "returned", "raised"
    err,                                \* the exception raised, or "none"
    iteration,                          \* iterations of the loop completed
    compset_NP, compset_dof,            \* the caller's composition sets
    free_chemical_potential_indices, fixed_chemical_potential_indices,
    free_statevar_indices,
    prescribed_element_indices, prescribed_elemental_amounts,
    prescribed_system_amount,
    phase_amt, dof, chemical_potentials, delta_statevars,
    free_stable_compset_indices, converged,
    largest_statevar_change, largest_internal_dof_change,
    largest_internal_cons_max_residual, largest_phase_amt_change,
    mass_residual, all_phase_amounts,
    system_is_feasible,                 \* line 385 of the last pass made
    ret                                 \* the returned triple, or "none"

args == <<free_chemical_potential_indices, fixed_chemical_potential_indices,
          free_statevar_indices, prescribed_element_indices,
          prescribed_elemental_amounts, prescribed_system_amount>>

compsets == <<compset_NP, compset_dof>>

\* what lines 319-325 set anew in every pass, and the residual of line 367
trackers == <<largest_statevar_change, largest_internal_dof_change,
              largest_internal_cons_max_residual, largest_phase_amt_change,
              mass_residual, all_phase_amounts>>

vars == <<pc, err, iteration, compsets, args, phase_amt, dof,
          chemical_potentials, delta_statevars, free_stable_compset_indices,
          converged, trackers, system_is_feasible, ret>>

\* ---------------------------------------------------------------- helpers

Range(s) == {s[i] : i \in DOMAIN s}

\* the elements of a set of integers in increasing order (np.nonzero, sorted)
RECURSIVE Sorted(_)
Sorted(S) ==
    IF S = {} THEN <<>>
    ELSE LET m == CHOOSE i \in S : \A j \in S : i <= j
         IN <<m>> \o Sorted(S \ {m})

RECURSIVE SumSeq(_)
SumSeq(s) == IF s = <<>> THEN Zero ELSE Add(Head(s), SumSeq(Tail(s)))

RECURSIVE DotOver(_, _, _)
DotOver(mu, m, C) ==
    IF C = {} THEN 0
    ELSE LET c == CHOOSE k \in C : TRUE
         IN mu[c] * m[c] + DotOver(mu, m, C \ {c})

\* np.dot(chemical_potentials, all_phase_amounts[idx, :])
Dot(mu, m) == DotOver(mu, m, Components)

\* ------------------------------------------------------- the call's inputs

\* the composition sets passed in (CompositionSet.NP and CompositionSet.dof,
\* a dof being <<state variable, site fraction>>) and the phases the caller
\* takes to be stable
CompsetChoices ==
    { [NP |-> [i \in Phases |-> IF i = 0 THEN One ELSE Zero],
       dof |-> [i \in Phases |-> <<1, One>>],
       active |-> {0}],
      [NP |-> [i \in Phases |-> One],
       dof |-> [i \in Phases |-> <<1, One>>],
       active |-> Phases],
      [NP |-> [i \in Phases |-> IF i = 0 THEN One ELSE OneAndHalf],
       dof |-> [i \in Phases |-> <<1, IF i = 0 THEN Zero ELSE Two>>],
       active |-> {0}] }

\* the condition sets: free and fixed chemical potentials, free state
\* variables, prescribed elements and their amounts
ConditionChoices ==
    { [fcp |-> <<0>>, xcp |-> <<>>, fsv |-> <<>>, pei |-> <<>>, pea |-> <<>>],
      [fcp |-> <<0>>, xcp |-> <<>>, fsv |-> <<0>>, pei |-> <<0>>, pea |-> <<One>>],
      [fcp |-> <<>>, xcp |-> <<0>>, fsv |-> <<>>, pei |-> <<0>>, pea |-> <<One>>],
      [fcp |-> <<0>>, xcp |-> <<>>, fsv |-> <<0>>, pei |-> <<>>, pea |-> <<>>] }

\* lines 312-316 and the first pass through lines 319-325
Init ==
    /\ pc = "loop"
    /\ err = "none"
    /\ iteration = 0
    /\ \E cs \in CompsetChoices :
          /\ compset_NP = cs.NP
          /\ compset_dof = cs.dof
          /\ free_stable_compset_indices = Sorted(cs.active)
    /\ \E c \in ConditionChoices :
          /\ free_chemical_potential_indices = c.fcp
          /\ fixed_chemical_potential_indices = c.xcp
          /\ free_statevar_indices = c.fsv
          /\ prescribed_element_indices = c.pei
          /\ prescribed_elemental_amounts = c.pea
    /\ prescribed_system_amount = One
    /\ phase_amt = compset_NP
    /\ dof = compset_dof
    /\ chemical_potentials = [c \in Components |-> 1]
    /\ delta_statevars = [s \in Statevars |-> 0]
    /\ converged = FALSE
    /\ largest_statevar_change = Zero
    /\ largest_internal_dof_change = Zero
    /\ largest_internal_cons_max_residual = Zero
    /\ largest_phase_amt_change = Zero
    /\ mass_residual = Zero
    /\ all_phase_amounts = [i \in Phases |-> [c \in Components |-> 0]]
    /\ system_is_feasible = FALSE
    /\ ret = "none"

\* --------------------------------------------- first step: lines 327-355

\* a clip that forgets the floor of line 345
ClipSiteFractionAboveOnly(new_y) == IF Less(One, new_y) THEN One ELSE new_y

\* lines 344-346
ClipSiteFraction(new_y) ==
    IF Less(new_y, MIN_SITE_FRACTION) THEN MIN_SITE_FRACTION
    ELSE IF Less(One, new_y) THEN One ELSE new_y

\* lines 343-348: x[num_statevars:] = clipped old_y + delta_y
UpdateInternalDof(x, delta_y) ==
    [x EXCEPT ![num_statevars + 1] = ClipSiteFraction(Add(@, delta_y))]

\* np.linalg.solve of every phase system: the delta_y of each phase
SolvePhaseSystems(d) ==
    { [i \in Phases |-> Sub(yt[i], d[i][num_statevars + 1])] :
        yt \in YTargets }

\* line 347, over the phases
LargestInternalDofChange(d, new_d) ==
    MaxOf({Zero} \cup
          { Abs(Sub(new_d[i][num_statevars + 1], d[i][num_statevars + 1])) :
              i \in Phases })

\* line 342, over the phases
LargestInternalConsMaxResidual(cons) ==
    MaxOf({Zero} \cup { cons[i] : i \in Phases })

\* an accumulation over the active set instead of the test of line 353
CurrentElementalAmountsOfActiveSet(amt, masses) ==
    [c \in Components |->
        SumOver([i \in Phases |-> MulInt(amt[i], masses[i][c])],
                Range(free_stable_compset_indices))]

\* lines 350-354: only a phase with a positive amount is accumulated
CurrentElementalAmounts(amt, masses) ==
    [c \in Components |->
        SumOver([i \in Phases |-> MulInt(amt[i], masses[i][c])],
                { i \in Phases : Less(Zero, amt[i]) })]

\* ------------------------------------------- second step: lines 358-381

\* a check that counts the active phases among the rows only
GibbsPhaseRuleCountsRowsOnly(num_stable_phases) ==
    (num_stable_phases + Len(prescribed_elemental_amounts) + 1)
        # (Len(free_chemical_potential_indices) + Len(free_statevar_indices))

\* lines 358-365
GibbsPhaseRuleViolated(num_stable_phases) ==
    LET num_fixed_components == Len(prescribed_elemental_amounts)
        num_free_variables == Len(free_chemical_potential_indices)
                              + num_stable_phases + Len(free_statevar_indices)
    IN (num_stable_phases + num_fixed_components + 1) # num_free_variables

\* lines 243-257 of fill_equilibrium_system: the value it returns
MassResidual(current_elemental_amounts, amt) ==
    LET current_system_amount == SumOver(amt, Phases)
        rel == [fc \in DOMAIN prescribed_elemental_amounts |->
                  Quotient(Abs(Sub(current_elemental_amounts[prescribed_element_indices[fc]],
                                   prescribed_elemental_amounts[fc])),
                           Abs(prescribed_elemental_amounts[fc]))]
    IN Add(SumSeq(rel), Abs(Sub(current_system_amount, prescribed_system_amount)))

\* lines 360-361: the columns of the system are the free chemical
\* potentials, then the active phases, then the free state variables
NumColumns(fsci) ==
    Len(free_chemical_potential_indices) + Len(fsci) + Len(free_statevar_indices)

\* lines 358-363: the rows of the system are the active phases, then the
\* prescribed elements, then the system amount
NumRows(fsci) == Len(fsci) + Len(prescribed_elemental_amounts) + 1

\* lines 101-110: the coefficients of phase idx go to row stable_idx; as a
\* sequence, element stable_idx + 1 is the phase whose coefficients the row holds
PhaseRows(fsci) == fsci

\* line 172: equilibrium_rhs[idx] = energy, idx being the index of the phase
\* in compsets, not its position stable_idx among the active phases
RhsRowOfEnergy(idx, stable_idx) == idx

\* lines 174-176: the terms that follow the energy into the same row
EnergyTerms(idx) ==
    {<<"energy", idx>>}
    \cup (IF fixed_chemical_potential_indices = <<>> THEN {} ELSE {<<"fixed_mu", idx>>})

\* lines 140-142 and 169-170: the terms phase idx adds to the right-hand
\* sides of the element rows and of the system-amount row
AddJacobianTerms(rhs, idx, n_phase_rows) ==
    [r \in DOMAIN rhs |-> IF r > n_phase_rows THEN rhs[r] \cup {<<"c_G", idx>>} ELSE rhs[r]]

\* fill_equilibrium_system_for_phase, right-hand side only, rows counted from
\* 1 here: what phase fsci[k] leaves in equilibrium_rhs.  Line 172 assigns,
\* so what the row held is lost; a row number past the end is a write
\* outside the vector (or an IndexError, see FillRaises)
FillRhsForPhase(acc, fsci, k) ==
    LET idx == fsci[k]
        added == AddJacobianTerms(acc.rhs, idx, Len(fsci))
        row == RhsRowOfEnergy(idx, k - 1) + 1
    IN IF row \in DOMAIN added
       THEN [rhs |-> [added EXCEPT ![row] = EnergyTerms(idx)], outside |-> acc.outside]
       ELSE [rhs |-> added, outside |-> acc.outside \cup {idx}]

\* lines 207-240: the phases of the active set in order
RECURSIVE FillRhsFrom(_, _, _)
FillRhsFrom(acc, fsci, k) ==
    IF k > Len(fsci) THEN acc
    ELSE FillRhsFrom(FillRhsForPhase(acc, fsci, k), fsci, k + 1)

\* lines 242-256: the residual terms of the element rows and of the
\* system-amount row
AddResidualTerms(rhs, n_phase_rows) ==
    [r \in DOMAIN rhs |->
        IF r = Len(rhs) THEN rhs[r] \cup {<<"system_amount", 0>>}
        ELSE IF r > n_phase_rows THEN rhs[r] \cup {<<"element", r - n_phase_rows - 1>>}
        ELSE rhs[r]]

\* fill_equilibrium_system on the zeroed arrays of lines 362-363: the phase
\* whose coefficients each phase row holds, the terms of each row of the
\* right-hand side, and the phases whose energy was written past its end
FillEquilibriumSystem(fsci) ==
    LET filled == FillRhsFrom([rhs |-> [r \in 1 .. NumRows(fsci) |-> {}], outside |-> {}], fsci, 1)
    IN [matrix |-> PhaseRows(fsci),
        rhs |-> AddResidualTerms(filled.rhs, Len(fsci)),
        outside |-> filled.outside]

\* np.linalg.lstsq: the solution vector, laid out as
\* [free chemical potentials | active phases | free state variables]
LstsqSolutions(amt, fsci, d) ==
    { mu \o dn \o ds :
        mu \in [1 .. Len(free_chemical_potential_indices) -> ChempotChoices],
        dn \in { [k \in 1 .. Len(fsci) |-> Sub(nt[k], amt[fsci[k]])] :
                   nt \in [1 .. Len(fsci) -> NTargets] },
        ds \in { [k \in 1 .. Len(free_statevar_indices) |->
                    st[k] - d[0][free_statevar_indices[k] + 1]] :
                   st \in [1 .. Len(free_statevar_indices) -> StatevarTargets] } }

\* ------------------------------ extract_equilibrium_solution: lines 260-291

\* a clip that forgets the upper bound of line 277
ClipPhaseAmtBelowOnly(n) == Max(Zero, n)

\* lines 277-278
ClipPhaseAmt(n) == Max(Zero, Min(One, n))

\* lines 275-278: the new amount of one active phase
UpdatePhaseAmt(n, soln_k) == ClipPhaseAmt(Add(n, soln_k))

\* lines 279-280: the change is new minus old, with its sign
TrackPhaseAmtChange(largest, old_n, new_n) == Max(largest, Sub(new_n, old_n))

\* lines 268-271
TrackChempotChange(largest, old_mu, new_mu) ==
    Max(largest, Ratio(AbsInt(new_mu - old_mu), AbsInt(old_mu)))

\* lines 287-289 (the state variables drawn here are never 0)
TrackStatevarChange(largest, delta, statevar) ==
    Max(largest, Ratio(AbsInt(delta), AbsInt(statevar)))

\* where index v stands in the sequence s, or 0
PositionIn(s, v) ==
    IF \E k \in DOMAIN s : s[k] = v THEN CHOOSE k \in DOMAIN s : s[k] = v ELSE 0

RECURSIVE FoldChempot(_, _, _, _)
FoldChempot(largest, mu, soln, k) ==
    IF k > Len(free_chemical_potential_indices) THEN largest
    ELSE FoldChempot(TrackChempotChange(largest, mu[free_chemical_potential_indices[k]], soln[k]),
                     mu, soln, k + 1)

RECURSIVE FoldPhaseAmt(_, _, _, _, _)
FoldPhaseAmt(largest, amt, new_amt, fsci, k) ==
    IF k > Len(fsci) THEN largest
    ELSE FoldPhaseAmt(TrackPhaseAmtChange(largest, amt[fsci[k]], new_amt[fsci[k]]),
                      amt, new_amt, fsci, k + 1)

RECURSIVE FoldStatevar(_, _, _, _)
FoldStatevar(largest, delta, d0, S) ==
    IF S = {} THEN largest
    ELSE LET sv == CHOOSE v \in S : TRUE
         IN FoldStatevar(TrackStatevarChange(largest, delta[sv], d0[sv + 1]),
                         delta, d0, S \ {sv})

\* the whole of extract_equilibrium_solution: what it leaves in the arrays
\* it was handed (largest_* are zero on entry, lines 322 and 325)
ExtractEquilibriumSolution(mu, amt, fsci, soln, d) ==
    LET n_mu == Len(free_chemical_potential_indices)
        n_st == Len(fsci)
        new_mu == [c \in Components |->
                     LET k == PositionIn(free_chemical_potential_indices, c)
                     IN IF k = 0 THEN mu[c] ELSE soln[k]]
        new_amt == [i \in Phases |->
                      LET k == PositionIn(fsci, i)
                      IN IF k = 0 THEN amt[i] ELSE UpdatePhaseAmt(amt[i], soln[n_mu + k])]
        delta == [sv \in Statevars |->
                    LET k == PositionIn(free_statevar_indices, sv)
                    IN IF k = 0 THEN 0 ELSE soln[n_mu + n_st + k]]
    IN [chemical_potentials |-> new_mu,
        phase_amt |-> new_amt,
        delta_statevars |-> delta,
        largest_statevar_change |->
            FoldStatevar(FoldChempot(Zero, mu, soln, 1), delta, d[0], Statevars),
        largest_phase_amt_change |-> FoldPhaseAmt(Zero, amt, new_amt, fsci, 1),
        dof |-> [i \in Phases |->
                   [k \in DOMAIN d[i] |->
                      IF k <= num_statevars THEN d[i][k] + delta[k - 1] ELSE d[i][k]]]]

\* ----------------------- check_convergence_and_change_phases: lines 294-304

\* line 296
CompsetsToAdd(driving_forces) ==
    { i \in Phases : driving_forces[i] > DrivingForceTol }

\* lines 301-302
ChangesAreSmall(dof_change, phase_amt_change, statevar_change) ==
    /\ Less(dof_change, InternalDofTol)
    /\ Less(phase_amt_change, PhaseAmtTol)
    /\ Less(statevar_change, StatevarTol)

CheckConvergenceAndChangePhases(current, driving_forces, dof_change, phase_amt_change, statevar_change) ==
    LET new == current \cup CompsetsToAdd(driving_forces)
    IN [converged |-> /\ current \ new = {}
                      /\ ChangesAreSmall(dof_change, phase_amt_change, statevar_change),
        new_free_stable_compset_indices |-> Sorted(new)]

\* ------------------------------------------------- the gate: lines 385-398

\* a gate that forgets the internal-constraint residual
SystemIsFeasibleMassOnly(residual, cons_residual) == Less(residual, MassResidualTol)

\* line 385
SystemIsFeasible(residual, cons_residual) ==
    Less(residual, MassResidualTol) /\ Less(cons_residual, InternalConsTol)

\* a threshold of 1 in place of MIN_SITE_FRACTION
StablePhasesAboveOne(amt) == { i \in Phases : Less(One, amt[i]) }

\* line 387
StablePhases(amt) == { i \in Phases : Less(MIN_SITE_FRACTION, amt[i]) }

\* lines 389-390
DrivingForces(energies, mu, masses) ==
    [i \in Phases |-> energies[i] - Dot(mu, masses[i])]

\* --------------------------------------------------------- find_solution

\* a loop that makes one pass too many
LoopEndsOnePassLate(conv, it) == conv \/ it > MaxIterations

\* lines 318 and 396-398: the loop ends on convergence or after the last pass
LoopEnds(conv, it) == conv \/ it >= MaxIterations

\* line 312: phase_amt is a new array, so no write to it reaches compset.NP
CallerNPAfter(caller_NP, amt) == caller_NP

\* dof[idx] an alias of compset.dof instead of a copy
CallerDofAliased(caller_dof, d) == d

\* line 313: every dof[idx] is a copy, so no write to it reaches compset.dof
CallerDofAfter(caller_dof, d) == caller_dof

\* the end of one pass through the loop body: the loop either ends, or line
\* 318 starts the next pass and lines 319-325 zero the per-pass arrays again
EndOfIteration(ex, conv, new_free, masses, dof_change, cons_residual, residual) ==
    LET ends == LoopEnds(conv, iteration + 1)
    IN /\ iteration' = iteration + 1
       /\ chemical_potentials' = ex.chemical_potentials
       /\ phase_amt' = ex.phase_amt
       /\ delta_statevars' = ex.delta_statevars
       /\ dof' = ex.dof
       /\ compset_NP' = CallerNPAfter(compset_NP, ex.phase_amt)
       /\ compset_dof' = CallerDofAfter(compset_dof, ex.dof)
       /\ free_stable_compset_indices' = new_free
       /\ converged' = conv
       /\ pc' = IF ends THEN "exit" ELSE "loop"
       /\ largest_statevar_change' = IF ends THEN ex.largest_statevar_change ELSE Zero
       /\ largest_phase_amt_change' = IF ends THEN ex.largest_phase_amt_change ELSE Zero
       /\ largest_internal_dof_change' = IF ends THEN dof_change ELSE Zero
       /\ largest_internal_cons_max_residual' = IF ends THEN cons_residual ELSE Zero
       /\ mass_residual' = IF ends THEN residual ELSE Zero
       /\ all_phase_amounts' = IF ends THEN masses
                               ELSE [i \in Phases |-> [c \in Components |-> 0]]
       /\ system_is_feasible' = SystemIsFeasible(residual, cons_residual)
       /\ UNCHANGED <<err, args, ret>>

\* lines 387-394: what the phase-change step returns for given energies
PhaseChange(ex, energies, masses, dof_change) ==
    LET driving_forces == DrivingForces(energies, ex.chemical_potentials, masses)
    IN CheckConvergenceAndChangePhases(StablePhases(ex.phase_amt), driving_forces, dof_change, ex.largest_phase_amt_change, ex.largest_statevar_change)

\* lines 386-398, the system being feasible, over the energies obj can return
ChangePhasesAndCheck(ex, masses, dof_change, cons_residual, residual) ==
    \E chk \in { PhaseChange(ex, energies, masses, dof_change) :
                    energies \in [Phases -> EnergyChoices] } :
       EndOfIteration(ex, chk.converged, chk.new_free_stable_compset_indices,
                      masses, dof_change, cons_residual, residual)

\* a gate that lets line 387 run whatever the residuals are
ActiveSetRecomputed(fsci, amt) == Sorted(StablePhases(amt))

\* lines 386-395 not taken: free_stable_compset_indices is not assigned
ActiveSetWhenInfeasible(fsci, amt) == fsci

\* one pass through the loop body, lines 319-398, nothing raising
Iterate ==
    /\ pc = "loop"
    /\ ~GibbsPhaseRuleViolated(Len(free_stable_compset_indices))
    /\ \E delta_y \in SolvePhaseSystems(dof),
          masses \in [Phases -> [Components -> MassChoices]] :
          \E new_dof \in {[i \in Phases |-> UpdateInternalDof(dof[i], delta_y[i])]} :
          \E dof_change \in {LargestInternalDofChange(dof, new_dof)},
             residual \in {MassResidual(CurrentElementalAmounts(phase_amt, masses), phase_amt)} :
             \E soln \in LstsqSolutions(phase_amt, free_stable_compset_indices, new_dof) :
                \E ex \in {ExtractEquilibriumSolution(chemical_potentials, phase_amt, free_stable_compset_indices, soln, new_dof)} :
                \E cons \in ConsChoices :
                \E cons_residual \in {LargestInternalConsMaxResidual(cons)} :
                   \/ /\ SystemIsFeasible(residual, cons_residual)
                      /\ ChangePhasesAndCheck(ex, masses, dof_change,
                                              cons_residual, residual)
                   \/ /\ ~SystemIsFeasible(residual, cons_residual)
                      /\ EndOfIteration(ex, converged,
                                        ActiveSetWhenInfeasible(free_stable_compset_indices, ex.phase_amt),
                                        masses, dof_change, cons_residual, residual)

Raise(e) ==
    /\ pc' = "raised"
    /\ err' = e
    /\ UNCHANGED <<iteration, compsets, args, phase_amt, dof, chemical_potentials,
                   delta_statevars, free_stable_compset_indices, converged,
                   trackers, system_is_feasible, ret>>

\* line 339: np.linalg.solve finds a phase matrix singular
SolveRaises ==
    /\ pc = "loop"
    /\ Raise("LinAlgError")

\* lines 364-365
GibbsRaises ==
    /\ pc = "loop"
    /\ GibbsPhaseRuleViolated(Len(free_stable_compset_indices))
    /\ Raise("ValueError")

\* what fill_equilibrium_system can raise: np.linalg.inv finds the phase
\* matrix of an active phase singular (line 233); and, in a build that checks
\* bounds, line 172 names a row past the end of equilibrium_rhs
FillErrors(fsci) ==
    {"LinAlgError"}
    \cup (IF FillEquilibriumSystem(fsci).outside # {} THEN {"IndexError"} ELSE {})

\* lines 207-240 raising
InvRaises ==
    /\ pc = "loop"
    /\ ~GibbsPhaseRuleViolated(Len(free_stable_compset_indices))
    /\ free_stable_compset_indices # <<>>
    /\ \E e \in FillErrors(free_stable_compset_indices) : Raise(e)

\* lines 400-403: dof[0], then the site fractions of the other phases, then
\* the phase amounts
RECURSIVE PackFrom(_, _)
PackFrom(f, i) ==
    IF i >= NumPhases THEN <<>> ELSE f[i] \o PackFrom(f, i + 1)

Pack(d, amt) ==
    d[0]
    \o PackFrom([i \in Phases |-> SubSeq(d[i], num_statevars + 1, Len(d[i]))], 1)
    \o PackFrom([i \in Phases |-> <<amt[i]>>], 0)

\* lines 400-405
Return ==
    /\ pc = "exit"
    /\ pc' = "returned"
    /\ ret' = [converged |-> converged, x |-> Pack(dof, phase_amt),
               chemical_potentials |-> chemical_potentials]
    /\ UNCHANGED <<err, iteration, compsets, args, phase_amt, dof,
                   chemical_potentials, delta_statevars,
                   free_stable_compset_indices, converged, trackers,
                   system_is_feasible>>

Next == Iterate \/ SolveRaises \/ GibbsRaises \/ InvRaises \/ Return

Spec == Init /\ [][Next]_vars

\* ================================================================ claims

\* C1: the loop makes at most 100 passes; a call in which no pass converges
\* and nothing raises has made exactly 100 passes when it leaves the loop,
\* and what it returns is converged = false, the packed last iterate (the
\* state variables of phase 0, every phase's site fraction, every phase's
\* amount) and the last chemical potentials
C1_Termination ==
    /\ iteration <= MaxIterations
    /\ (pc = "loop" => iteration < MaxIterations)
    /\ (iteration = MaxIterations => pc \in {"exit", "returned"} /\ err = "none")
    /\ (pc \in {"exit", "returned"} /\ ~converged => iteration = MaxIterations)
    /\ (pc = "returned" /\ ~converged =>
          /\ ret.converged = FALSE
          /\ ret.chemical_potentials = chemical_potentials
          /\ Len(ret.x) = num_statevars + 2 * NumPhases
          /\ \A k \in 1 .. num_statevars : ret.x[k] = dof[0][k]
          /\ \A i \in Phases :
                /\ ret.x[num_statevars + 1 + i] = dof[i][num_statevars + 1]
                /\ ret.x[num_statevars + NumPhases + 1 + i] = phase_amt[i])

C1_Witness ==
    /\ pc = "returned"
    /\ iteration = MaxIterations
    /\ ret.converged = FALSE

\* |free chemical potentials| + |free state variables| differs from
\* |prescribed elemental amounts| + 1
ConditionsMismatch ==
    Len(free_chemical_potential_indices) + Len(free_statevar_indices)
        # Len(prescribed_elemental_amounts) + 1

\* C2 as stated: once the first pass is over (completed or raised), the
\* Gibbs-phase-rule error has been raised in it exactly when the condition
\* counts mismatch, and no later pass raises it
C2_AsStated ==
    /\ (iteration >= 1 \/ pc = "raised") =>
          ((pc = "raised" /\ err = "ValueError" /\ iteration = 0) <=> ConditionsMismatch)
    /\ (err = "ValueError" => iteration = 0)

\* C2 amended: the Gibbs-phase-rule error is raised only in the first pass and
\* only when the condition counts mismatch, whatever the active set; when they
\* mismatch no pass completes, and the first pass ends in that error unless
\* a per-phase solve of that pass raised before the check was reached
C2_GibbsRule ==
    /\ (err = "ValueError" => iteration = 0 /\ pc = "raised" /\ ConditionsMismatch)
    /\ (ConditionsMismatch => iteration = 0 /\ pc \in {"loop", "raised"})
    /\ (ConditionsMismatch /\ pc = "raised" => err \in {"ValueError", "LinAlgError"})
    /\ (~ConditionsMismatch /\ pc = "raised" => err \in {"LinAlgError", "IndexError"})

C2_Witness ==
    /\ pc = "raised"
    /\ err = "ValueError"
    /\ Len(free_stable_compset_indices) = NumPhases

InUnitInterval(n) == Leq(Zero, n) /\ Leq(n, One)

\* C3 as stated: after every pass, every phase of the list, active or not,
\* has 0 <= phase_amt <= 1
C3_AsStated ==
    iteration >= 1 => \A i \in Phases : InUnitInterval(phase_amt[i])

\* C3 amended: a pass leaves 0 <= phase_amt[i] <= 1 for every phase i that is
\* in the active set the pass solves for, and leaves the amount of every
\* other phase as it was (whatever it was)
C3_PhaseAmounts ==
    [][iteration' = iteration + 1 =>
          \A i \in Phases :
             IF i \in Range(free_stable_compset_indices)
             THEN InUnitInterval(phase_amt'[i])
             ELSE phase_amt'[i] = phase_amt[i]]_vars

\* a pass has clipped an active phase while a phase outside the active set
\* still holds an amount above 1
C3_Witness ==
    /\ iteration >= 1
    /\ \E i \in Phases : ~InUnitInterval(phase_amt[i])
    /\ \E j \in Phases : phase_amt[j] # compset_NP[j] /\ InUnitInterval(phase_amt[j])

\* C4: after every pass, every site fraction of every composition set is in
\* [MIN_SITE_FRACTION, 1], whatever it was at the call
C4_SiteFractions ==
    iteration >= 1 =>
       \A i \in Phases :
          /\ Leq(MIN_SITE_FRACTION, dof[i][num_statevars + 1])
          /\ Leq(dof[i][num_statevars + 1], One)

\* a pass has been made on site fractions that were below the floor and above
\* 1 at the call, and has moved them
C4_Witness ==
    /\ iteration >= 1
    /\ \E i \in Phases : Less(compset_dof[i][num_statevars + 1], MIN_SITE_FRACTION)
    /\ \E i \in Phases : Less(One, compset_dof[i][num_statevars + 1])
    /\ \E i \in Phases : dof[i][num_statevars + 1] = MIN_SITE_FRACTION

\* C5: converged is true only when the pass that set it passed the gate
\* (mass_residual < 1e-5 and internal-constraint residual < 1e-10) and its
\* three trackers were under 1e-11, 1e-10 and 1e-1; it is what the call
\* returns; a pass that fails the gate does not set it
C5_ConvergedOnlyIfFeasible ==
    /\ (converged =>
          /\ pc \in {"exit", "returned"}
          /\ Less(mass_residual, <<10, 0>>)
          /\ Less(largest_internal_cons_max_residual, <<0, 100>>)
          /\ Less(largest_internal_dof_change, <<0, 10>>)
          /\ Less(largest_phase_amt_change, <<0, 100>>)
          /\ Less(largest_statevar_change, <<100000, 0>>))
    /\ (pc = "returned" => ret.converged = converged)
    /\ (pc = "loop" => ~converged)

\* the call has returned converged = true, the pass that converged coming
\* after at least one pass that did not
C5_Witness ==
    /\ pc = "returned"
    /\ ret.converged = TRUE
    /\ iteration >= 2

\* C6: a pass that sets converged leaves the active set as it found it
C6_ActiveSetUnchanged ==
    [][converged' /\ ~converged =>
          free_stable_compset_indices' = free_stable_compset_indices]_vars

\* C7: a pass that admits, by its driving force, a phase that was outside the
\* active set and whose amount is not above MIN_SITE_FRACTION is followed by
\* another pass
C7_AdmittedPhaseIsSolvedFor ==
    [][\A i \in Phases :
          (/\ i \notin Range(free_stable_compset_indices)
           /\ i \in Range(free_stable_compset_indices')
           /\ i \notin StablePhases(phase_amt'))
          => pc' = "loop"]_vars

\* C8: when the call returns converged = true, the returned amounts and the
\* masses of the returned site fractions balance every prescribed element to
\* a relative 1e-5
C8_MassBalanceAtConvergence ==
    (pc = "returned" /\ ret.converged = TRUE) =>
       \A fc \in DOMAIN prescribed_elemental_amounts :
          LET c == prescribed_element_indices[fc]
              total == SumOver([i \in Phases |-> MulInt(phase_amt[i], all_phase_amounts[i][c])], Phases)
          IN Less(Quotient(Abs(Sub(total, prescribed_elemental_amounts[fc])),
                           Abs(prescribed_elemental_amounts[fc])),
                  <<10, 0>>)

\* C9 as stated: on return the caller's composition sets hold the final dof
\* and the final phase amounts
C9_AsStated ==
    pc = "returned" =>
       \A i \in Phases : compset_dof[i] = dof[i] /\ compset_NP[i] = phase_amt[i]

\* C9 amended: no step of the call writes to the caller's composition sets;
\* the final dof and phase amounts reach the caller in the packed solution
C9_CompsetsUntouched ==
    [][/\ compset_NP' = compset_NP
       /\ compset_dof' = compset_dof
       /\ (pc' = "returned" => ret'.x = Pack(dof', phase_amt'))]_vars

\* the call has returned a solution that differs, in dof and in amounts,
\* from what the caller's composition sets hold
C9_Witness ==
    /\ pc = "returned"
    /\ \E i \in Phases : compset_dof[i] # dof[i]
    /\ \E i \in Phases : compset_NP[i] # phase_amt[i]

\* C10: the tracker a pass leaves is at least the size of the clipped change
\* of every active phase of that pass
C10_TracksAbsoluteChange ==
    [][(iteration' = iteration + 1 /\ pc' = "exit") =>
          \A i \in Range(free_stable_compset_indices) :
             Leq(Abs(Sub(phase_amt'[i], phase_amt[i])), largest_phase_amt_change')]_vars

\* the layout C11 describes, of an assembled system
EnergyInPhaseRow(sys) ==
    /\ sys.outside = {}
    /\ \A r \in DOMAIN sys.rhs :
          IF r \in DOMAIN sys.matrix
          THEN /\ <<"energy", sys.matrix[r]>> \in sys.rhs[r]
               /\ \A t \in sys.rhs[r] :
                     t[1] \in {"energy", "fixed_mu"} => t[2] = sys.matrix[r]
          ELSE \A t \in sys.rhs[r] : t[1] \notin {"energy", "fixed_mu"}

\* C11: in the system a pass assembles from its active set, the row that
\* holds the coefficients of an active phase holds that phase's energy terms
\* on the right-hand side, and no energy term is anywhere else: not in the row
\* of another phase, not in an element row or the system-amount row, not
\* outside the vector
C11_EnergyInPhaseRow ==
    [][iteration' = iteration + 1 =>
          EnergyInPhaseRow(FillEquilibriumSystem(free_stable_compset_indices))]_vars

\* C12: a pass in which the gate fails (mass_residual >= 1e-5 or internal
\* constraint residual >= 1e-10) leaves the active set exactly as it found
\* it and does not set converged
C12_InfeasiblePassKeepsActiveSet ==
    [][(iteration' = iteration + 1 /\ ~system_is_feasible') =>
          /\ free_stable_compset_indices' = free_stable_compset_indices
          /\ ~converged'
          /\ (pc' = "exit" =>
                \/ ~Less(mass_residual', <<10, 0>>)
                \/ ~Less(largest_internal_cons_max_residual', <<0, 100>>))]_vars

\* the gate has failed in a pass that took an active phase to an amount not
\* above MIN_SITE_FRACTION, and the phase is still in the active set
C12_Witness ==
    /\ iteration >= 1
    /\ ~system_is_feasible
    /\ pc = "loop"
    /\ \E i \in Range(free_stable_compset_indices) :
          /\ ~Less(MIN_SITE_FRACTION, phase_amt[i])
          /\ Less(MIN_SITE_FRACTION, compset_NP[i])

\* the mass residual of lines 243-257 when the elemental amounts are the sums
\* of amt[i] * masses[i][c] over the phases of S
ResidualOver(S, amt, masses) ==
    LET rel == [fc \in DOMAIN prescribed_elemental_amounts |->
                  LET c == prescribed_element_indices[fc]
                      total == SumOver([i \in Phases |-> MulInt(amt[i], masses[i][c])], S)
                  IN Quotient(Abs(Sub(total, prescribed_elemental_amounts[fc])),
                              Abs(prescribed_elemental_amounts[fc]))]
    IN Add(SumSeq(rel), Abs(Sub(SumOver(amt, Phases), prescribed_system_amount)))

\* C13 as stated: the elemental amounts behind the mass residual of a pass are
\* the sums over exactly the phases of the active set of that pass
C13_AsStated ==
    [][(iteration' = iteration + 1 /\ pc' = "exit") =>
          mass_residual' = ResidualOver(Range(free_stable_compset_indices),
                                        phase_amt, all_phase_amounts')]_vars

\* C13 amended: the elemental amounts behind the mass residual of a pass are
\* the sums over the phases whose amount is above 0 at the start of the
\* pass, in the active set or not
C13_PositiveAmounts ==
    [][(iteration' = iteration + 1 /\ pc' = "exit") =>
          mass_residual' = ResidualOver({ i \in Phases : Less(Zero, phase_amt[i]) },
                                        phase_amt, all_phase_amounts')]_vars

\* the last pass has measured the mass residual against a prescribed element
\* with a phase of positive amount outside the active set
C13_Witness ==
    /\ pc = "exit"
    /\ ~system_is_feasible
    /\ prescribed_elemental_amounts # <<>>
    /\ \E i \in Phases :
          /\ i \notin Range(free_stable_compset_indices)
          /\ Less(Zero, phase_amt[i])
    /\ ~Less(mass_residual, <<10, 0>>)

\* C14 as stated, first half: at the start of every pass every phase of the
\* active set has an amount above MIN_SITE_FRACTION
C14_AsStated ==
    pc = "loop" =>
       \A i \in Range(free_stable_compset_indices) :
          Less(MIN_SITE_FRACTION, phase_amt[i])

\* C14 amended: after a pass that passed the gate every phase with an amount
\* above MIN_SITE_FRACTION is in the active set (not the converse); in every
\* pass the phase rows of the system are the phases of the active set, one
\* row each, the phase columns are as many, and the amount of a phase
\* outside the active set is not touched
C14_ActiveSetAndSystem ==
    [][iteration' = iteration + 1 =>
          \A active \in {Range(free_stable_compset_indices)} :
             /\ (system_is_feasible' =>
                   \A new_active \in {Range(free_stable_compset_indices')} :
                      \A i \in Phases :
                         Less(MIN_SITE_FRACTION, phase_amt'[i]) => i \in new_active)
             /\ Len(PhaseRows(free_stable_compset_indices)) = Cardinality(active)
             /\ Range(PhaseRows(free_stable_compset_indices)) = active
             /\ NumRows(free_stable_compset_indices)
                   = Cardinality(active) + Len(prescribed_elemental_amounts) + 1
             /\ NumColumns(free_stable_compset_indices)
                   = Len(free_chemical_potential_indices) + Cardinality(active)
                     + Len(free_statevar_indices)
             /\ \A i \in Phases \ active : phase_amt'[i] = phase_amt[i]]_vars

\* a pass that passed the gate has left in the active set a phase with an
\* amount above MIN_SITE_FRACTION and one with an amount not above it, and
\* the loop goes on
C14_Witness ==
    /\ pc = "loop"
    /\ iteration >= 1
    /\ system_is_feasible
    /\ \E i \in Range(free_stable_compset_indices) : ~Less(MIN_SITE_FRACTION, phase_amt[i])
    /\ \E j \in Range(free_stable_compset_indices) : Less(MIN_SITE_FRACTION, phase_amt[j])

====
